---- MODULE Spec2Model ----
(***************************************************************************)
(* Model of qjp (quick json picker), the multi-select variant of main.go   *)
(* (src/main.go lines 369-1111): the App state, the filter, the layout,    *)
(* the viewport window computed by render, the selection model and the     *)
(* input decoder run by the session loop.                                  *)
(*                                                                         *)
(* Conventions.  A Go string is a sequence of byte values (ASCII only), so *)
(* a typed byte and a character of a display value are the same kind of    *)
(* thing.  Go slices and indexes are 0-based: the model keeps the 0-based  *)
(* numbers of the code (cursor, start, end, record positions) and reads    *)
(* the TLA+ sequences through At.                                          *)
(***************************************************************************)
EXTENDS Integers, Sequences, FiniteSets, TLC

\* ---------------------------------------------------------------- bounds
\* Longest filter text the session model lets the operator type.
MaxFilterLen == 2
\* Frame model: most records, widest and tallest terminal.
MaxItems == 5
MaxWidth == 6
MaxHeight == 9

\* ------------------------------------------------------ program constants
\* render: availableLines := a.height - 4
ChromeRows == 4
\* calculateLines, render: the "> " or "  " prefix
PrefixWidth == 2
\* run: buf := make([]byte, 3)
BufSize == 3

\* ------------------------------------------------------------ Go basics
At(s, i) == s[i + 1]

max(a, b) == IF a > b THEN a ELSE b

min(a, b) == IF a < b THEN a ELSE b

\* s[from:to] of Go, 0-based, half-open.
Slice(s, from, to) == SubSeq(s, from + 1, to)

\* strings.ToLower on ASCII bytes.
ToLowerByte(c) == IF c >= 65 /\ c <= 90 THEN c + 32 ELSE c

RECURSIVE ToLower(_)
ToLower(s) ==
  IF s = <<>> THEN <<>> ELSE <<ToLowerByte(Head(s))>> \o ToLower(Tail(s))

\* strings.Index: the first 0-based offset at which sub occurs in s, or -1.
RECURSIVE IndexFrom(_, _, _)
IndexFrom(s, sub, i) ==
  IF i + Len(sub) > Len(s) THEN -1
  ELSE IF Slice(s, i, i + Len(sub)) = sub THEN i
  ELSE IndexFrom(s, sub, i + 1)

\* strings.Contains
Contains(s, sub) == IndexFrom(s, sub, 0) >= 0

RECURSIVE Spaces(_)
Spaces(k) == IF k <= 0 THEN <<>> ELSE <<32>> \o Spaces(k - 1)

\* fmt.Sprintf("%-*s", w, s): s padded with spaces on the right up to w.
PadRight(w, s) == s \o Spaces(w - Len(s))

\* strings.Join
RECURSIVE Join(_, _)
Join(values, sep) ==
  IF values = <<>> THEN <<>>
  ELSE IF Len(values) = 1 THEN values[1]
  ELSE values[1] \o sep \o Join(Tail(values), sep)

\* sort.Ints over the keys of a map: ascending, no duplicates.
RECURSIVE SortInts(_)
SortInts(S) ==
  IF S = {} THEN <<>>
  ELSE LET m == CHOOSE x \in S : \A y \in S : x <= y
       IN <<m>> \o SortInts(S \ {m})

\* ------------------------------------------------- record values (JSON)
\* A decoded JSON value: [t |-> "str", s |-> bytes], [t |-> "num", n |-> k]
\* (a non-negative integer below 2^31, which %d and json.Marshal print in
\* plain decimal and %v in exponent form from 10^6 on), [t |-> "bool", b |-> BOOLEAN], [t |-> "null"],
\* [t |-> "arr", a |-> sequence of values].
Str(s) == [t |-> "str", s |-> s]

Num(k) == [t |-> "num", n |-> k]

Bool(b) == [t |-> "bool", b |-> b]

Null == [t |-> "null"]

Arr(a) == [t |-> "arr", a |-> a]

\* strconv decimal digits of a non-negative integer: "%d", and the 'f' format
\* json.Marshal uses for an integral float64 below 10^21.
RECURSIVE Digits(_)
Digits(k) ==
  IF k < 10 THEN <<48 + k>> ELSE Digits(k \div 10) \o <<48 + (k % 10)>>

\* A digit string without its trailing zeros, the first digit kept.
RECURSIVE TrimZeros(_)
TrimZeros(ds) ==
  IF Len(ds) > 1 /\ ds[Len(ds)] = 48 THEN TrimZeros(SubSeq(ds, 1, Len(ds) - 1))
  ELSE ds

\* strconv's exponent form of the digits ds of an integer: d.ddde+XX, the
\* trailing zeros of the mantissa dropped and the exponent written with at
\* least two digits.
ExponentForm(ds) ==
  (IF Len(TrimZeros(ds)) = 1 THEN TrimZeros(ds)
   ELSE <<ds[1], 46>> \o Tail(TrimZeros(ds)))
  \o <<101, 43>>
  \o (IF Len(ds) - 1 < 10 THEN <<48>> \o Digits(Len(ds) - 1)
      ELSE Digits(Len(ds) - 1))

\* fmt.Sprintf("%v", float64(k)) for an integer k >= 0: strconv's shortest
\* 'g' format, plain decimal while the decimal exponent is below 6 and the
\* exponent form from 10^6 on.
SprintfVFloat(k) ==
  IF k < 1000000 THEN Digits(k) ELSE ExponentForm(Digits(k))

\* fmt.Sprintf("%v", val)
RECURSIVE SprintfV(_)
RECURSIVE SprintfVList(_)
SprintfV(val) ==
  CASE val.t = "str" -> val.s
    [] val.t = "num" -> SprintfVFloat(val.n)
    [] val.t = "bool" ->
         IF val.b THEN <<116, 114, 117, 101>> ELSE <<102, 97, 108, 115, 101>>
    [] val.t = "null" -> <<60, 110, 105, 108, 62>>
    [] val.t = "arr" -> <<91>> \o SprintfVList(val.a) \o <<93>>

SprintfVList(a) ==
  IF a = <<>> THEN <<>>
  ELSE IF Len(a) = 1 THEN SprintfV(a[1])
  ELSE SprintfV(a[1]) \o <<32>> \o SprintfVList(Tail(a))

\* A lower-case hexadecimal digit.
HexDigit(d) == IF d < 10 THEN 48 + d ELSE 87 + d

\* encoding/json's \u00XX escape of one byte.
JSONUnicodeEscape(b) ==
  <<92, 117, 48, 48, HexDigit(b \div 16), HexDigit(b % 16)>>

\* encoding/json string escaping of one ASCII byte, HTML escaping on as in
\* json.Marshal: '"' and '\' take a backslash; backspace, form feed, newline,
\* carriage return and tab their letter (\b and \f as of Go 1.22); the other
\* control bytes and '<', '>', '&' are written \u00XX.
JSONEscapeByte(b) ==
  CASE b = 34 \/ b = 92 -> <<92, b>>
    [] b = 8 -> <<92, 98>>
    [] b = 12 -> <<92, 102>>
    [] b = 10 -> <<92, 110>>
    [] b = 13 -> <<92, 114>>
    [] b = 9 -> <<92, 116>>
    [] b < 32 \/ b = 60 \/ b = 62 \/ b = 38 -> JSONUnicodeEscape(b)
    [] OTHER -> <<b>>

\* encoding/json string escaping of an ASCII string.
RECURSIVE JSONEscape(_)
JSONEscape(s) ==
  IF s = <<>> THEN <<>>
  ELSE JSONEscapeByte(Head(s)) \o JSONEscape(Tail(s))

\* json.Marshal of a value.
RECURSIVE JSONValue(_)
RECURSIVE JSONList(_)
JSONValue(val) ==
  CASE val.t = "str" -> <<34>> \o JSONEscape(val.s) \o <<34>>
    [] val.t = "num" -> Digits(val.n)
    [] val.t = "bool" ->
         IF val.b THEN <<116, 114, 117, 101>> ELSE <<102, 97, 108, 115, 101>>
    [] val.t = "null" -> <<110, 117, 108, 108>>
    [] val.t = "arr" -> <<91>> \o JSONList(val.a) \o <<93>>

JSONList(a) ==
  IF a = <<>> THEN <<>>
  ELSE IF Len(a) = 1 THEN JSONValue(a[1])
  ELSE JSONValue(a[1]) \o <<44>> \o JSONList(Tail(a))

\* Byte-wise order of two strings (the order json.Marshal sorts map keys in).
RECURSIVE StrLess(_, _)
StrLess(x, y) ==
  IF y = <<>> THEN FALSE
  ELSE IF x = <<>> THEN TRUE
  ELSE IF Head(x) # Head(y) THEN Head(x) < Head(y)
  ELSE StrLess(Tail(x), Tail(y))

\* json.Marshal of a record: its keys in sorted order.
RECURSIVE JSONMembers(_, _)
JSONMembers(obj, keys) ==
  IF keys = {} THEN <<>>
  ELSE LET k == CHOOSE x \in keys : \A y \in keys \ {x} : StrLess(x, y)
           rest == keys \ {k}
       IN <<34>> \o JSONEscape(k) \o <<34, 58>> \o JSONValue(obj[k])
          \o (IF rest = {} THEN <<>> ELSE <<44>> \o JSONMembers(obj, rest))

JSONObject(obj) == <<123>> \o JSONMembers(obj, DOMAIN obj) \o <<125>>

\* ------------------------------------------------------------ App state
VARIABLES
  objects,       \* App.objects: the records, position i is At(objects, i)
  displayAttrs,  \* App.displayAttrs
  separator,     \* App.separator
  tableMode,     \* App.tableMode
  truncate,      \* App.truncate
  colWidths,     \* App.colWidths
  width,         \* App.width
  height,        \* App.height
  cursor,        \* App.cursor: 0-based index into filtered
  filtered,      \* App.filtered: record positions matching the filter
  filter,        \* App.filter
  selected,      \* App.selected: Go map[int]bool, a function on its keys
  frame,         \* what the last render painted: filter, start, end, lines
  pending,       \* bytes the terminal holds that no read has returned yet
  esc,           \* history: App state when an unrecognized escape arrived
  buf,           \* run: the bytes the last Read put in buf (buf[:n])
  n,             \* run: the byte count the last Read returned
  pc,            \* run: "new", "read" (blocked in Read), "returned", "frame"
  result,        \* run: the returned []int (nil is <<>>)
  err,           \* run: whether the returned error is non-nil
  rawMode,       \* terminal: raw mode set and not yet restored
  altScreen,     \* terminal: alternate screen entered and not yet left
  cursorHidden,  \* terminal: cursor hidden and not yet shown
  args,          \* main: os.Args[1:], each argument a string
  cfg,           \* main: the config parseArgs returned
  cfgErr,        \* main: the error validateConfig returned (NoError is nil)
  stdout,        \* os.Stdout: the bytes written so far
  outErr         \* main: the error outputSelectedObjects returned

config == <<objects, displayAttrs, separator, tableMode, truncate, colWidths,
            width, height>>

terminal == <<rawMode, altScreen, cursorHidden>>

cmdline == <<args, cfg, cfgErr>>

output == <<stdout, outErr>>

vars == <<objects, displayAttrs, separator, tableMode, truncate, colWidths,
          width, height, cursor, filtered, filter, selected, frame, pending,
          esc, buf, n, pc, result, err, rawMode, altScreen, cursorHidden,
          args, cfg, cfgErr, stdout, outErr>>

\* The mutable fields of App, as the value the handlers take and return.
App == [cursor |-> cursor, filtered |-> filtered, filter |-> filter,
        selected |-> selected]

\* Go map read: a missing key reads as false.
MapGet(m, k) == IF k \in DOMAIN m THEN m[k] ELSE FALSE

\* Go map write: m[k] = v.
MapSet(m, k, v) == [x \in (DOMAIN m) \cup {k} |-> IF x = k THEN v ELSE m[x]]

\* The records the operator sees as marked (rendered with colorSelected).
Marked(m) == {k \in DOMAIN m : m[k]}

\* ---------------------------------------------------------- Filter Engine
\* App.calculateColumnWidths: per display attribute, the longest %v rendering.
RECURSIVE ColumnWidth(_, _, _)
ColumnWidth(objs, attr, i) ==
  IF i >= Len(objs) THEN 0
  ELSE LET obj == At(objs, i)
           rest == ColumnWidth(objs, attr, i + 1)
       IN IF attr \in DOMAIN obj THEN max(Len(SprintfV(obj[attr])), rest)
          ELSE rest

calculateColumnWidths(objs, attrs) ==
  [i \in 1..Len(attrs) |-> ColumnWidth(objs, attrs[i], 0)]

\* App.getDisplayValue, the value of one display attribute (loop body).
AttrValue(obj, i) ==
  LET attr == At(displayAttrs, i)
      valStr == IF attr \in DOMAIN obj
                THEN (IF obj[attr].t = "arr" THEN JSONValue(obj[attr])
                      ELSE SprintfV(obj[attr]))
                ELSE <<>>
  IN IF tableMode /\ i < Len(colWidths) /\ i < Len(displayAttrs) - 1
     THEN PadRight(At(colWidths, i), valStr)
     ELSE valStr

\* App.getDisplayValue
getDisplayValue(obj) ==
  IF Len(displayAttrs) = 0 THEN JSONObject(obj)
  ELSE LET values == [i \in 1..Len(displayAttrs) |-> AttrValue(obj, i - 1)]
       IN IF tableMode THEN Join(values, <<32, 32>>)
          ELSE Join(values, separator)

\* App.updateFilter, the loop: positions i.. whose display value matches.
RECURSIVE MatchesFrom(_, _)
MatchesFrom(filterText, i) ==
  IF i >= Len(objects) THEN <<>>
  ELSE (IF Contains(ToLower(getDisplayValue(At(objects, i))), filterText)
        THEN <<i>> ELSE <<>>)
       \o MatchesFrom(filterText, i + 1)

AllPositions == [i \in 1..Len(objects) |-> i - 1]

\* updateFilter that compares the filter as typed, without strings.ToLower.
updateFilter_rawFilter(a) ==
  LET filterText == a.filter
  IN IF filterText = <<>> THEN [a EXCEPT !.filtered = AllPositions]
     ELSE LET f == MatchesFrom(filterText, 0)
          IN [a EXCEPT !.filtered = f,
                       !.cursor = IF a.cursor >= Len(f)
                                  THEN max(0, Len(f) - 1) ELSE a.cursor]

\* updateFilter that sends the cursor back to the top after every narrowing.
updateFilter_resetCursor(a) ==
  LET filterText == ToLower(a.filter)
  IN IF filterText = <<>> THEN [a EXCEPT !.filtered = AllPositions]
     ELSE [a EXCEPT !.filtered = MatchesFrom(filterText, 0), !.cursor = 0]

\* updateFilter that also drops the marks of the records it filters out.
updateFilter_dropsHiddenMarks(a) ==
  LET filterText == ToLower(a.filter)
  IN IF filterText = <<>> THEN [a EXCEPT !.filtered = AllPositions]
     ELSE LET f == MatchesFrom(filterText, 0)
              shown == {f[i] : i \in 1..Len(f)}
          IN [a EXCEPT !.filtered = f,
                       !.cursor = IF a.cursor >= Len(f)
                                  THEN max(0, Len(f) - 1) ELSE a.cursor,
                       !.selected = [k \in (DOMAIN a.selected) \cap shown |->
                                       a.selected[k]]]

\* updateFilter that adjusts the cursor only when a match is left.
updateFilter_noClamp(a) ==
  LET filterText == ToLower(a.filter)
  IN IF filterText = <<>> THEN [a EXCEPT !.filtered = AllPositions]
     ELSE LET f == MatchesFrom(filterText, 0)
          IN [a EXCEPT !.filtered = f,
                       !.cursor = IF a.cursor >= Len(f) /\ Len(f) > 0
                                  THEN Len(f) - 1 ELSE a.cursor]

\* App.updateFilter
updateFilter(a) ==
  LET filterText == ToLower(a.filter)
  IN IF filterText = <<>> THEN [a EXCEPT !.filtered = AllPositions]
     ELSE LET f == MatchesFrom(filterText, 0)
          IN [a EXCEPT !.filtered = f,
                       !.cursor = IF a.cursor >= Len(f)
                                  THEN max(0, Len(f) - 1) ELSE a.cursor]

\* ---------------------------------------------------------- Layout Engine
\* calculateLines that rounds the division down instead of up.
calculateLines_floor(displayVal) ==
  IF displayVal = <<>> THEN 1
  ELSE IF truncate THEN 1
  ELSE LET effectiveWidth == width - PrefixWidth
       IN IF effectiveWidth <= 0 THEN 1
          ELSE LET lines == Len(displayVal) \div effectiveWidth
               IN IF lines = 0 THEN 1 ELSE lines

\* App.calculateLines
calculateLines(displayVal) ==
  IF displayVal = <<>> THEN 1
  ELSE IF truncate THEN 1
  ELSE LET effectiveWidth == width - PrefixWidth
       IN IF effectiveWidth <= 0 THEN 1
          ELSE LET lines == (Len(displayVal) + effectiveWidth - 1)
                              \div effectiveWidth
               IN IF lines = 0 THEN 1 ELSE lines

\* Row cost of the match at index i of a.filtered.
itemLines(a, i) == calculateLines(getDisplayValue(At(objects, At(a.filtered, i))))

\* App.getMaxDisplayWidth
RECURSIVE MaxWidthFrom(_, _)
MaxWidthFrom(a, i) ==
  IF i >= Len(a.filtered) THEN 0
  ELSE max(Len(getDisplayValue(At(objects, At(a.filtered, i)))),
           MaxWidthFrom(a, i + 1))

getMaxDisplayWidth(a) == MaxWidthFrom(a, 0)

\* ------------------------------------------------------ Viewport Windower
\* availableLines without the clamp to 1.
availableLines_noClamp == height - ChromeRows

\* render: availableLines := a.height - 4, at least 1
availableLines ==
  IF height - ChromeRows <= 0 THEN 1 ELSE height - ChromeRows

\* ExpandUp capped at the whole budget instead of half of it.
RECURSIVE ExpandUp_wholeBudget(_, _, _)
ExpandUp_wholeBudget(a, start, usedLines) ==
  IF start > 0
  THEN LET cost == itemLines(a, start - 1)
       IN IF usedLines + cost > availableLines
          THEN [start |-> start, usedLines |-> usedLines]
          ELSE ExpandUp_wholeBudget(a, start - 1, usedLines + cost)
  ELSE [start |-> start, usedLines |-> usedLines]

\* ExpandUp that stops as soon as the half budget is reached (>= for >).
RECURSIVE ExpandUp_stopsAtCap(_, _, _)
ExpandUp_stopsAtCap(a, start, usedLines) ==
  IF start > 0
  THEN LET cost == itemLines(a, start - 1)
       IN IF usedLines + cost >= availableLines \div 2
          THEN [start |-> start, usedLines |-> usedLines]
          ELSE ExpandUp_stopsAtCap(a, start - 1, usedLines + cost)
  ELSE [start |-> start, usedLines |-> usedLines]

\* render: "Expand upward from cursor"; returns start and usedLines.
RECURSIVE ExpandUp(_, _, _)
ExpandUp(a, start, usedLines) ==
  IF start > 0
  THEN LET cost == itemLines(a, start - 1)
       IN IF usedLines + cost > availableLines \div 2
          THEN [start |-> start, usedLines |-> usedLines]
          ELSE ExpandUp(a, start - 1, usedLines + cost)
  ELSE [start |-> start, usedLines |-> usedLines]

\* ExpandDown that stops as soon as the budget is reached (>= for >).
RECURSIVE ExpandDown_stopsAtCap(_, _, _)
ExpandDown_stopsAtCap(a, end, usedLines) ==
  IF end < Len(a.filtered)
  THEN LET cost == itemLines(a, end)
       IN IF usedLines + cost >= availableLines THEN end
          ELSE ExpandDown_stopsAtCap(a, end + 1, usedLines + cost)
  ELSE end

\* render: "Expand downward from cursor"; returns end.
RECURSIVE ExpandDown(_, _, _)
ExpandDown(a, end, usedLines) ==
  IF end < Len(a.filtered)
  THEN LET cost == itemLines(a, end)
       IN IF usedLines + cost > availableLines THEN end
          ELSE ExpandDown(a, end + 1, usedLines + cost)
  ELSE end

\* computeWindow whose downward expansion starts at the cursor, not after it.
computeWindow_endAtCursor(a) ==
  IF Len(a.filtered) > 0
  THEN LET up == ExpandUp(a, a.cursor, 0)
           used == up.usedLines + itemLines(a, a.cursor)
       IN [start |-> up.start, end |-> ExpandDown(a, a.cursor, used)]
  ELSE [start |-> 0, end |-> Len(a.filtered)]

\* render: "Find the range of items to display"
computeWindow(a) ==
  IF Len(a.filtered) > 0
  THEN LET up == ExpandUp(a, a.cursor, 0)
           used == up.usedLines + itemLines(a, a.cursor)
       IN [start |-> up.start, end |-> ExpandDown(a, a.cursor + 1, used)]
  ELSE [start |-> 0, end |-> Len(a.filtered)]

\* --------------------------------------------------------- Frame Renderer
\* render: "Check if any lines will wrap (only if not truncating)"
hasWrappingLines(a, start, end) ==
  /\ ~truncate
  /\ \E i \in start .. (end - 1) :
       Len(getDisplayValue(At(objects, At(a.filtered, i)))) > width - PrefixWidth

\* render: "Display items", one painted item line: whether it is the cursor
\* row, whether it has the marked background, the text after the prefix.
paintLine(a, i, maxDisplayWidth, wraps) ==
  LET idx == At(a.filtered, i)
      raw == getDisplayValue(At(objects, idx))
      maxWidth == width - PrefixWidth
      displayVal == IF truncate /\ Len(raw) > maxWidth /\ maxWidth > 3
                    THEN Slice(raw, 0, maxWidth - 3) \o <<46, 46, 46>>
                    ELSE raw
      renderVal == IF truncate \/ ~wraps
                   THEN PadRight(maxDisplayWidth, displayVal)
                   ELSE displayVal
      isSelected == MapGet(a.selected, idx)
  IN [cursor |-> i = a.cursor, selected |-> isSelected,
      text |-> IF i = a.cursor \/ isSelected THEN renderVal ELSE displayVal]

\* App.render: the frame painted for App state a.
render(a) ==
  LET w == computeWindow(a)
      maxDisplayWidth == getMaxDisplayWidth(a)
      wraps == hasWrappingLines(a, w.start, w.end)
  IN [filter |-> a.filter, start |-> w.start, end |-> w.end,
      lines |-> [k \in 1..(w.end - w.start) |->
                   paintLine(a, w.start + k - 1, maxDisplayWidth, wraps)],
      noMatches |-> Len(a.filtered) = 0]

\* Nothing painted yet.
NoFrame == [filter |-> <<>>, start |-> 0, end |-> 0, lines |-> <<>>,
            noMatches |-> FALSE]

\* -------------------------------------------------------- Selection Model
\* toggleSelection that sets the mark instead of flipping it.
toggleSelection_setTrue(a) ==
  IF Len(a.filtered) > 0 /\ a.cursor < Len(a.filtered)
  THEN LET idx == At(a.filtered, a.cursor)
       IN [a EXCEPT !.selected = MapSet(a.selected, idx, TRUE),
                    !.cursor = IF a.cursor < Len(a.filtered) - 1
                               THEN a.cursor + 1 ELSE a.cursor]
  ELSE a

\* toggleSelection that forgets to advance the cursor.
toggleSelection_noAdvance(a) ==
  IF Len(a.filtered) > 0 /\ a.cursor < Len(a.filtered)
  THEN LET idx == At(a.filtered, a.cursor)
       IN [a EXCEPT !.selected = MapSet(a.selected, idx, ~MapGet(a.selected, idx))]
  ELSE a

\* App.toggleSelection
toggleSelection(a) ==
  IF Len(a.filtered) > 0 /\ a.cursor < Len(a.filtered)
  THEN LET idx == At(a.filtered, a.cursor)
       IN [a EXCEPT !.selected = MapSet(a.selected, idx, ~MapGet(a.selected, idx)),
                    !.cursor = IF a.cursor < Len(a.filtered) - 1
                               THEN a.cursor + 1 ELSE a.cursor]
  ELSE a

\* sort.Ints replaced by a descending sort.
RECURSIVE SortInts_descending(_)
SortInts_descending(S) ==
  IF S = {} THEN <<>>
  ELSE LET m == CHOOSE x \in S : \A y \in S : x >= y
       IN <<m>> \o SortInts_descending(S \ {m})

\* getSelection that returns the marks in the wrong order.
getSelection_unsorted(a) ==
  IF Len(a.filtered) = 0 \/ a.cursor >= Len(a.filtered) THEN <<>>
  ELSE IF Cardinality(DOMAIN a.selected) > 0
  THEN SortInts_descending(DOMAIN a.selected)
  ELSE <<At(a.filtered, a.cursor)>>

\* getSelection without the fallback to the record under the cursor.
getSelection_marksOnly(a) ==
  IF Len(a.filtered) = 0 \/ a.cursor >= Len(a.filtered) THEN <<>>
  ELSE SortInts(DOMAIN a.selected)

\* App.getSelection
getSelection(a) ==
  IF Len(a.filtered) = 0 \/ a.cursor >= Len(a.filtered) THEN <<>>
  ELSE IF Cardinality(DOMAIN a.selected) > 0 THEN SortInts(DOMAIN a.selected)
  ELSE <<At(a.filtered, a.cursor)>>

\* handleBackspace that shortens the filter and forgets updateFilter.
handleBackspace_stale(a) ==
  IF Len(a.filter) > 0
  THEN [a EXCEPT !.filter = Slice(a.filter, 0, Len(a.filter) - 1)]
  ELSE a

\* handleBackspace that jumps to the top when there is nothing to delete.
handleBackspace_emptyResets(a) ==
  IF Len(a.filter) > 0
  THEN updateFilter([a EXCEPT !.filter = Slice(a.filter, 0, Len(a.filter) - 1)])
  ELSE [a EXCEPT !.cursor = 0]

\* handleBackspace that deletes the first character of the filter.
handleBackspace_dropsFirst(a) ==
  IF Len(a.filter) > 0
  THEN updateFilter([a EXCEPT !.filter = Slice(a.filter, 1, Len(a.filter))])
  ELSE a

\* App.handleBackspace
handleBackspace(a) ==
  IF Len(a.filter) > 0
  THEN updateFilter([a EXCEPT !.filter = Slice(a.filter, 0, Len(a.filter) - 1)])
  ELSE a

\* handleCharacter that replaces the filter by the typed character.
handleCharacter_replace(a, ch) ==
  IF ch >= 32 /\ ch < 127
  THEN updateFilter([a EXCEPT !.filter = <<ch>>])
  ELSE a

\* handleCharacter without the upper bound of the printable range.
handleCharacter_noUpperBound(a, ch) ==
  IF ch >= 32
  THEN updateFilter([a EXCEPT !.filter = a.filter \o <<ch>>])
  ELSE a

\* App.handleCharacter
handleCharacter(a, ch) ==
  IF ch >= 32 /\ ch < 127
  THEN updateFilter([a EXCEPT !.filter = a.filter \o <<ch>>])
  ELSE a

\* moveCursorUp that wraps from the first match to the last.
moveCursorUp_wrap(a) ==
  IF a.cursor > 0 THEN [a EXCEPT !.cursor = a.cursor - 1]
  ELSE IF Len(a.filtered) > 0 THEN [a EXCEPT !.cursor = Len(a.filtered) - 1]
  ELSE a

\* App.moveCursorUp
moveCursorUp(a) ==
  IF a.cursor > 0 THEN [a EXCEPT !.cursor = a.cursor - 1] ELSE a

\* App.moveCursorDown
moveCursorDown(a) ==
  IF a.cursor < Len(a.filtered) - 1 THEN [a EXCEPT !.cursor = a.cursor + 1] ELSE a

\* ---------------------------------------------------------- Input Decoder
\* What handleInput leaves behind: done and result as returned, the App
\* state, and whether it called render.
Outcome(done, res, a, painted) ==
  [done |-> done, result |-> res, app |-> a, render |-> painted]

\* handleInput whose Cancel case holds Ctrl+C only: ESC falls to the default.
handleInput_escNotCancel(a, b, cnt) ==
  IF cnt = 1
  THEN CASE At(b, 0) = 0 -> Outcome(FALSE, <<>>, toggleSelection(a), TRUE)
         [] At(b, 0) = 3 -> Outcome(TRUE, <<>>, a, FALSE)
         [] At(b, 0) \in {10, 13} -> Outcome(TRUE, getSelection(a), a, FALSE)
         [] At(b, 0) = 127 -> Outcome(FALSE, <<>>, handleBackspace(a), TRUE)
         [] OTHER -> Outcome(FALSE, <<>>, handleCharacter(a, At(b, 0)), TRUE)
  ELSE IF cnt = 3 /\ At(b, 0) = 27 /\ At(b, 1) = 91
  THEN CASE At(b, 2) = 65 -> Outcome(FALSE, <<>>, moveCursorUp(a), TRUE)
         [] At(b, 2) = 66 -> Outcome(FALSE, <<>>, moveCursorDown(a), TRUE)
         [] OTHER -> Outcome(FALSE, <<>>, a, FALSE)
  ELSE Outcome(FALSE, <<>>, a, FALSE)

\* handleInput that moves the cursor without painting the frame again.
handleInput_noRenderOnMove(a, b, cnt) ==
  IF cnt = 1
  THEN CASE At(b, 0) = 0 -> Outcome(FALSE, <<>>, toggleSelection(a), TRUE)
         [] At(b, 0) \in {3, 27} -> Outcome(TRUE, <<>>, a, FALSE)
         [] At(b, 0) \in {10, 13} -> Outcome(TRUE, getSelection(a), a, FALSE)
         [] At(b, 0) = 127 -> Outcome(FALSE, <<>>, handleBackspace(a), TRUE)
         [] OTHER -> Outcome(FALSE, <<>>, handleCharacter(a, At(b, 0)), TRUE)
  ELSE IF cnt = 3 /\ At(b, 0) = 27 /\ At(b, 1) = 91
  THEN CASE At(b, 2) = 65 -> Outcome(FALSE, <<>>, moveCursorUp(a), FALSE)
         [] At(b, 2) = 66 -> Outcome(FALSE, <<>>, moveCursorDown(a), FALSE)
         [] OTHER -> Outcome(FALSE, <<>>, a, FALSE)
  ELSE Outcome(FALSE, <<>>, a, FALSE)

\* handleInput that decodes a 2-byte read by its first byte.
handleInput_twoByteAsOne(a, b, cnt) ==
  IF cnt = 1 \/ cnt = 2
  THEN CASE At(b, 0) = 0 -> Outcome(FALSE, <<>>, toggleSelection(a), TRUE)
         [] At(b, 0) \in {3, 27} -> Outcome(TRUE, <<>>, a, FALSE)
         [] At(b, 0) \in {10, 13} -> Outcome(TRUE, getSelection(a), a, FALSE)
         [] At(b, 0) = 127 -> Outcome(FALSE, <<>>, handleBackspace(a), TRUE)
         [] OTHER -> Outcome(FALSE, <<>>, handleCharacter(a, At(b, 0)), TRUE)
  ELSE IF cnt = 3 /\ At(b, 0) = 27 /\ At(b, 1) = 91
  THEN CASE At(b, 2) = 65 -> Outcome(FALSE, <<>>, moveCursorUp(a), TRUE)
         [] At(b, 2) = 66 -> Outcome(FALSE, <<>>, moveCursorDown(a), TRUE)
         [] OTHER -> Outcome(FALSE, <<>>, a, FALSE)
  ELSE Outcome(FALSE, <<>>, a, FALSE)

\* App.handleInput(buf, n), with b the n bytes the read returned.
handleInput(a, b, cnt) ==
  IF cnt = 1
  THEN CASE At(b, 0) = 0 -> Outcome(FALSE, <<>>, toggleSelection(a), TRUE)
         [] At(b, 0) \in {3, 27} -> Outcome(TRUE, <<>>, a, FALSE)
         [] At(b, 0) \in {10, 13} -> Outcome(TRUE, getSelection(a), a, FALSE)
         [] At(b, 0) = 127 -> Outcome(FALSE, <<>>, handleBackspace(a), TRUE)
         [] OTHER -> Outcome(FALSE, <<>>, handleCharacter(a, At(b, 0)), TRUE)
  ELSE IF cnt = 3 /\ At(b, 0) = 27 /\ At(b, 1) = 91
  THEN CASE At(b, 2) = 65 -> Outcome(FALSE, <<>>, moveCursorUp(a), TRUE)
         [] At(b, 2) = 66 -> Outcome(FALSE, <<>>, moveCursorDown(a), TRUE)
         [] OTHER -> Outcome(FALSE, <<>>, a, FALSE)
  ELSE Outcome(FALSE, <<>>, a, FALSE)

\* ------------------------------------------------------------- scenarios
\* Field names and display strings, as bytes.
FieldName == <<110, 97, 109, 101>>   \* "name"

FieldId == <<105, 100>>              \* "id"

DefaultSeparator == <<32, 45, 32>>   \* parseArgs: separator: " - "

\* ---------------------------------------------------------- command line
\* The arguments, as bytes.
FlagD == <<45, 100>>       \* "-d"

FlagO == <<45, 111>>       \* "-o"

FlagS == <<45, 115>>       \* "-s"

FlagT == <<45, 116>>       \* "-t"

FlagTable == <<45, 84>>    \* "-T"

FlagL == <<45, 108>>       \* "-l"

FlagA == <<45, 97>>        \* "-a"

FlagH == <<45, 104>>       \* "-h"

FlagHelp == <<45, 45, 104, 101, 108, 112>>   \* "--help"

\* strings.HasPrefix(s, "-")
HasDashPrefix(s) == Len(s) >= 1 /\ s[1] = 45

\* parseArgs: cfg := config{separator: " - "}; help records that "-h" or
\* "--help" was met,
\* where parseArgs prints the usage and exits.
DefaultCfg ==
  [outputAttr |-> <<>>, displayAttrs |-> <<>>, truncate |-> FALSE,
   tableMode |-> FALSE, lineMode |-> FALSE, allAttrs |-> FALSE,
   filename |-> <<>>, separator |-> DefaultSeparator, help |-> FALSE]

\* parseArgs: the loop over args from index i, with c the config so far.
RECURSIVE ParseFrom(_, _, _)
ParseFrom(c, a, i) ==
  IF i >= Len(a) \/ c.help THEN c
  ELSE LET arg == At(a, i)
           hasValue == i + 1 < Len(a)
       IN CASE arg = FlagD ->
                 IF hasValue
                 THEN ParseFrom([c EXCEPT !.displayAttrs = Append(@, At(a, i + 1))],
                                a, i + 2)
                 ELSE ParseFrom(c, a, i + 1)
            [] arg = FlagO ->
                 IF hasValue
                 THEN ParseFrom([c EXCEPT !.outputAttr = At(a, i + 1)], a, i + 2)
                 ELSE ParseFrom(c, a, i + 1)
            [] arg = FlagS ->
                 IF hasValue
                 THEN ParseFrom([c EXCEPT !.separator = At(a, i + 1)], a, i + 2)
                 ELSE ParseFrom(c, a, i + 1)
            [] arg = FlagT -> ParseFrom([c EXCEPT !.truncate = TRUE], a, i + 1)
            [] arg = FlagTable -> ParseFrom([c EXCEPT !.tableMode = TRUE], a, i + 1)
            [] arg = FlagL -> ParseFrom([c EXCEPT !.lineMode = TRUE], a, i + 1)
            [] arg = FlagA -> ParseFrom([c EXCEPT !.allAttrs = TRUE], a, i + 1)
            [] arg = FlagH \/ arg = FlagHelp -> [c EXCEPT !.help = TRUE]
            [] OTHER ->
                 IF ~HasDashPrefix(arg)
                 THEN ParseFrom([c EXCEPT !.filename = arg], a, i + 1)
                 ELSE ParseFrom(c, a, i + 1)

\* parseArgs
parseArgs(a) == ParseFrom(DefaultCfg, a, 0)

\* The nil error.
NoError == "nil"

\* validateConfig: the error returned, by its message.
validateConfig(c) ==
  IF c.allAttrs /\ Len(c.displayAttrs) > 0 THEN "cannot use both -a and -d"
  ELSE IF c.lineMode
  THEN IF Len(c.displayAttrs) > 0 THEN "cannot use -d in line mode"
       ELSE IF c.allAttrs THEN "cannot use -a in line mode"
       ELSE IF c.outputAttr # <<>> THEN "cannot use -o in line mode"
       ELSE IF c.separator # DefaultSeparator THEN "cannot use -s in line mode"
       ELSE IF c.truncate THEN "cannot use -t in line mode"
       ELSE IF c.tableMode THEN "cannot use -T in line mode"
       ELSE NoError
  ELSE NoError

\* ------------------------------------------------------------------ output
FieldLine == <<108, 105, 110, 101>>   \* "line"

\* A Go error value: nil, or an error with its message.
NilError == [nil |-> TRUE, msg |-> <<>>]

\* fmt.Errorf("attribute '%s' not found in selected object", outputAttr)
ErrorfAttributeNotFound(outputAttr) ==
  [nil |-> FALSE,
   msg |-> <<97, 116, 116, 114, 105, 98, 117, 116, 101, 32, 39>>
           \o outputAttr \o
           <<39, 32, 110, 111, 116, 32, 102, 111, 117, 110, 100, 32, 105, 110, 32, 115, 101, 108, 101, 99, 116, 101, 100, 32, 111, 98, 106, 101, 99, 116>>]

\* formatOutputValue: a float64 holding an integer prints as %d (the numbers
\* of the model are integers), a string as itself, an array as JSON, the other
\* values as %v. json.Marshal does not fail on decoded JSON values.
formatOutputValue(val) ==
  CASE val.t = "num" -> Digits(val.n)
    [] val.t = "str" -> val.s
    [] val.t = "arr" -> JSONValue(val)
    [] OTHER -> SprintfV(val)

\* fmt.Println(line) on the bytes written so far.
Println(written, line) == written \o line \o <<10>>

\* outputSelectedObjects: the loop over indices, with written the bytes
\* printed by the iterations before; the bytes written and the error returned.
RECURSIVE OutputFrom(_, _, _, _)
OutputFrom(objs, indices, outputAttr, written) ==
  IF indices = <<>> THEN [stdout |-> written, err |-> NilError]
  ELSE LET selectedObj == At(objs, Head(indices))
       IN IF outputAttr # <<>>
          THEN IF outputAttr \notin DOMAIN selectedObj
               THEN [stdout |-> written,
                     err |-> ErrorfAttributeNotFound(outputAttr)]
               ELSE OutputFrom(objs, Tail(indices), outputAttr,
                               Println(written,
                                       formatOutputValue(selectedObj[outputAttr])))
          ELSE OutputFrom(objs, Tail(indices), outputAttr,
                          Println(written, JSONObject(selectedObj)))

\* outputSelectedObjects
outputSelectedObjects(objs, indices, outputAttr) ==
  OutputFrom(objs, indices, outputAttr, <<>>)

\* main: the output attribute, "line" in line mode.
mainOutputAttr(c) == IF c.lineMode THEN FieldLine ELSE c.outputAttr

\* [{"name":"Alpha"},{"name":"Beta"},{"name":"Gamma"}]
ObjsNames ==
  << (FieldName :> Str(<<65, 108, 112, 104, 97>>)),
     (FieldName :> Str(<<66, 101, 116, 97>>)),
     (FieldName :> Str(<<71, 97, 109, 109, 97>>)) >>

\* [{"name":"aL","id":7},{"id":["a",1]},{"name":"Lalala~a","id":null}]
ObjsMixed ==
  << (FieldName :> Str(<<97, 76>>)) @@ (FieldId :> Num(7)),
     (FieldId :> Arr(<<Str(<<97>>), Num(1)>>)),
     (FieldName :> Str(<<76, 97, 108, 97, 108, 97, 126, 97>>)) @@ (FieldId :> Null) >>

\* The session scenarios, each a record set with its display configuration
\* and terminal geometry: one attribute on the default 80x24 terminal; one
\* attribute wrapping on a narrow terminal; a truncated table of two
\* attributes; whole records on a terminal that reports no size.
Scenarios ==
  { [args |-> <<FlagD, FieldName>>,
      objs |-> ObjsNames, attrs |-> <<FieldName>>, table |-> FALSE,
      trunc |-> FALSE, w |-> 80, h |-> 24],
    [args |-> <<FlagD, FieldName>>,
     objs |-> ObjsMixed, attrs |-> <<FieldName>>, table |-> FALSE,
     trunc |-> FALSE, w |-> 5, h |-> 6],
    [args |-> <<FlagD, FieldName, FlagD, FieldId, FlagTable, FlagT>>,
     objs |-> ObjsMixed, attrs |-> <<FieldName, FieldId>>, table |-> TRUE,
     trunc |-> TRUE, w |-> 10, h |-> 5],
    [args |-> <<>>,
     objs |-> ObjsNames, attrs |-> <<>>, table |-> FALSE,
     trunc |-> FALSE, w |-> 0, h |-> 0] }

\* What one key press (or paste) makes the terminal deliver.
KeyUp == <<27, 91, 65>>

KeyDown == <<27, 91, 66>>

Keys ==
  { <<0>>, <<3>>, <<27>>, <<10>>, <<13>>, <<127>>,     \* control bytes
    <<97>>, <<76>>, <<126>>,                           \* 'a', 'L', '~'
    <<9>>, <<200>>,                                    \* Tab, a non-ASCII byte
    KeyUp, KeyDown,
    <<27, 91, 67>>,                                    \* Right: ESC [ C
    <<27, 79, 80>>,                                    \* F1: ESC O P
    <<27, 91, 51, 126>>,                               \* Delete: ESC [ 3 ~
    <<27, 91, 49, 53, 126>>,                           \* F5: ESC [ 1 5 ~
    <<97, 76>>,                                        \* "aL" in one read
    <<97, 76, 126>> }                                  \* "aL~" in one read

\* An escape sequence the decoder does not recognize.
UnrecognizedEscape(key) ==
  /\ Len(key) >= 3
  /\ key[1] = 27
  /\ \/ key[2] = 91 /\ key # KeyUp /\ key # KeyDown
     \/ key[2] = 79 /\ Len(key) = 3

NoEsc == [active |-> FALSE]

\* Number of characters the reads of `bytes` append to the filter: reads take
\* BufSize bytes at a time, and only a 1-byte read types a character.
TypedChars(bytes) ==
  IF Len(bytes) % BufSize = 1 /\ bytes[Len(bytes)] >= 32 /\ bytes[Len(bytes)] < 127
  THEN 1 ELSE 0

\* ------------------------------------------------------------------ Init
\* newApp: the state after construction, before run.
Init ==
  /\ \E v \in Scenarios :
       /\ objects = v.objs
       /\ displayAttrs = v.attrs
       /\ tableMode = v.table
       /\ truncate = v.trunc
       /\ width = v.w
       /\ height = v.h
       /\ colWidths = IF v.table /\ Len(v.attrs) > 0
                      THEN calculateColumnWidths(v.objs, v.attrs) ELSE <<>>
       /\ args = v.args
       /\ cfg = parseArgs(v.args)
       /\ cfgErr = validateConfig(parseArgs(v.args))
       /\ stdout = <<>>
       /\ outErr = NilError
  /\ separator = DefaultSeparator
  /\ cursor = 0
  /\ filtered = AllPositions
  /\ filter = <<>>
  /\ selected = <<>>
  /\ frame = NoFrame
  /\ pending = <<>>
  /\ esc = NoEsc
  /\ buf = <<>>
  /\ n = 0
  /\ pc = "new"
  /\ result = <<>>
  /\ err = FALSE
  /\ rawMode = FALSE
  /\ altScreen = FALSE
  /\ cursorHidden = FALSE

\* ------------------------------------------------------------------- run
\* run: setRawMode fails; run returns the error before touching the screen.
runRawModeFails ==
  /\ pc = "new"
  /\ pc' = "returned"
  /\ err' = TRUE
  /\ result' = <<>>
  /\ UNCHANGED <<cmdline, output, config, cursor, filtered, filter, selected, frame, pending,
                 esc, buf, n, terminal>>

\* run: raw mode, alternate screen, hidden cursor, the first render.
runEnter ==
  /\ pc = "new"
  /\ rawMode' = TRUE
  /\ altScreen' = TRUE
  /\ cursorHidden' = TRUE
  /\ frame' = render(App)
  /\ pc' = "read"
  /\ UNCHANGED <<cmdline, output, config, cursor, filtered, filter, selected, pending, esc,
                 buf, n, result, err>>

\* run: one iteration of the loop whose Read returned the bytes b, leaving
\* rest in the terminal: handleInput, and the deferred calls if it is done.
Iterate(b, rest) ==
  LET h == handleInput(App, b, Len(b))
  IN /\ buf' = b
     /\ n' = Len(b)
     /\ pending' = rest
     /\ cursor' = h.app.cursor
     /\ filtered' = h.app.filtered
     /\ filter' = h.app.filter
     /\ selected' = h.app.selected
     /\ frame' = IF h.render THEN render(h.app) ELSE frame
     /\ result' = h.result
     /\ pc' = IF h.done THEN "returned" ELSE "read"
     /\ rawMode' = (rawMode /\ ~h.done)
     /\ altScreen' = (altScreen /\ ~h.done)
     /\ cursorHidden' = (cursorHidden /\ ~h.done)
     /\ UNCHANGED <<cmdline, output, config, err>>

\* The blocked Read returns when a key arrives: up to BufSize of its bytes.
ReadKey(key) ==
  /\ pc = "read"
  /\ pending = <<>>
  /\ Len(filter) + TypedChars(key) <= MaxFilterLen
  /\ esc' = IF UnrecognizedEscape(key) THEN [active |-> TRUE, before |-> App]
            ELSE NoEsc
  /\ Iterate(Slice(key, 0, min(BufSize, Len(key))),
             Slice(key, min(BufSize, Len(key)), Len(key)))

\* Read returns at once with bytes an earlier read left in the terminal.
ReadPending ==
  /\ pc = "read"
  /\ pending # <<>>
  /\ UNCHANGED esc
  /\ Iterate(Slice(pending, 0, min(BufSize, Len(pending))),
             Slice(pending, min(BufSize, Len(pending)), Len(pending)))

\* A failed Read that returns without running the deferred restoreTerminal.
ReadError_leavesRaw ==
  /\ pc = "read"
  /\ pc' = "returned"
  /\ err' = TRUE
  /\ result' = <<>>
  /\ n' = 0
  /\ altScreen' = FALSE
  /\ cursorHidden' = FALSE
  /\ UNCHANGED <<cmdline, output, config, cursor, filtered, filter, selected, frame, pending,
                 esc, buf, rawMode>>

\* run: Read fails; the loop stops and the deferred calls restore the terminal.
ReadError ==
  /\ pc = "read"
  /\ pc' = "returned"
  /\ err' = TRUE
  /\ result' = <<>>
  /\ n' = 0
  /\ rawMode' = FALSE
  /\ altScreen' = FALSE
  /\ cursorHidden' = FALSE
  /\ UNCHANGED <<cmdline, output, config, cursor, filtered, filter, selected, frame, pending,
                 esc, buf>>

Next ==
  \/ runRawModeFails
  \/ runEnter
  \/ \E key \in Keys : ReadKey(key)
  \/ ReadPending
  \/ ReadError

Spec == Init /\ [][Next]_vars

\* ----------------------------------------------------------- frame model
\* The window and the frame as a function of the App state: every record set
\* of up to MaxItems records whose display value is LongLen or ShortLen bytes
\* of 'x', every terminal up to MaxWidth x MaxHeight, both layout modes, the
\* filters "" (all match), "xx" (the long records match) and "z" (none
\* matches), and every cursor position the match list allows.
ItemLens == {1, 4}

Xs(k) == [i \in 1..k |-> 120]

FrameFilters == {<<>>, <<120, 120>>, <<122>>}

FrameObjects ==
  UNION { [1..k -> {(FieldName :> Str(Xs(l))) : l \in ItemLens}] : k \in 1..MaxItems }

InitFrame ==
  /\ objects \in FrameObjects
  /\ displayAttrs = <<FieldName>>
  /\ separator = DefaultSeparator
  /\ tableMode = FALSE
  /\ truncate \in BOOLEAN
  /\ colWidths = <<>>
  /\ width \in 0..MaxWidth
  /\ height \in 0..MaxHeight
  /\ filter \in FrameFilters
  /\ filtered = updateFilter([cursor |-> 0, filtered |-> <<>>, filter |-> filter,
                              selected |-> <<>>]).filtered
  /\ cursor \in 0..max(0, Len(filtered) - 1)
  /\ selected = <<>>
  /\ frame = NoFrame
  /\ pending = <<>>
  /\ esc = NoEsc
  /\ buf = <<>>
  /\ n = 0
  /\ pc = "frame"
  /\ args = IF truncate THEN <<FlagD, FieldName, FlagT>> ELSE <<FlagD, FieldName>>
  /\ cfg = parseArgs(args)
  /\ cfgErr = validateConfig(cfg)
  /\ stdout = <<>>
  /\ outErr = NilError
  /\ result = <<>>
  /\ err = FALSE
  /\ rawMode = TRUE
  /\ altScreen = TRUE
  /\ cursorHidden = TRUE

\* render, applied to the drawn state.
PaintFrame ==
  /\ pc = "frame"
  /\ frame' = render(App)
  /\ pc' = "painted"
  /\ UNCHANGED <<cmdline, output, config, cursor, filtered, filter, selected, pending, esc,
                 buf, n, result, err, terminal>>

NextFrame == PaintFrame

SpecFrame == InitFrame /\ [][NextFrame]_vars

\* ------------------------------------------------------ command line model
\* main up to validateConfig, as a function of the arguments: every command
\* line of up to MaxArgs arguments drawn from the flags, a word and the
\* string " - ".
MaxArgs == 3

WordX == <<120>>           \* "x"

ArgTokens ==
  {FlagD, FlagO, FlagS, FlagT, FlagTable, FlagL, FlagA, FlagH, FlagHelp,
   WordX, DefaultSeparator}

CommandLines == UNION { [1..k -> ArgTokens] : k \in 0..MaxArgs }

InitArgs ==
  /\ args \in CommandLines
  /\ cfg = DefaultCfg
  /\ cfgErr = NoError
  /\ stdout = <<>>
  /\ outErr = NilError
  /\ objects = ObjsNames
  /\ displayAttrs = <<>>
  /\ separator = DefaultSeparator
  /\ tableMode = FALSE
  /\ truncate = FALSE
  /\ colWidths = <<>>
  /\ width = 80
  /\ height = 24
  /\ cursor = 0
  /\ filtered = <<>>
  /\ filter = <<>>
  /\ selected = <<>>
  /\ frame = NoFrame
  /\ pending = <<>>
  /\ esc = NoEsc
  /\ buf = <<>>
  /\ n = 0
  /\ pc = "args"
  /\ result = <<>>
  /\ err = FALSE
  /\ rawMode = FALSE
  /\ altScreen = FALSE
  /\ cursorHidden = FALSE

\* main: cfg := parseArgs(); "-h" prints the usage and exits.
mainParseArgs ==
  /\ pc = "args"
  /\ cfg' = parseArgs(args)
  /\ pc' = IF cfg'.help THEN "exited" ELSE "parsed"
  /\ UNCHANGED <<args, cfgErr, config, cursor, filtered, filter, selected,
                 frame, pending, esc, buf, n, result, err, terminal, output>>

\* main: validateConfig(cfg); an error is fatal.
mainValidateConfig ==
  /\ pc = "parsed"
  /\ cfgErr' = validateConfig(cfg)
  /\ pc' = IF cfgErr' # NoError THEN "fatal" ELSE "validated"
  /\ UNCHANGED <<args, cfg, config, cursor, filtered, filter, selected,
                 frame, pending, esc, buf, n, result, err, terminal, output>>

NextArgs == mainParseArgs \/ mainValidateConfig

SpecArgs == InitArgs /\ [][NextArgs]_vars

\* ------------------------------------------------------------ table model
\* newApp in table mode as a function of the records: every list of up to
\* MaxRows records whose "id" is absent, a number, a string, an array or null
\* and whose "name" is a string or absent, shown with -T -d id -d name.
MaxRows == 2

TableIds ==
  {Num(7), Num(1000000), Str(<<97, 60>>), Arr(<<Str(<<97>>), Num(1)>>), Null}

TableRecords ==
  LET ids == {<<>>} \cup {(FieldId :> v) : v \in TableIds}
      names == {<<>>, (FieldName :> Str(<<97, 76>>))}
  IN {i @@ m : i \in ids, m \in names}

TableObjects == UNION { [1..k -> TableRecords] : k \in 1..MaxRows }

InitTable ==
  /\ objects \in TableObjects
  /\ displayAttrs = <<FieldId, FieldName>>
  /\ separator = DefaultSeparator
  /\ tableMode = TRUE
  /\ truncate = FALSE
  /\ colWidths = <<>>
  /\ width = 80
  /\ height = 24
  /\ cursor = 0
  /\ filtered = <<>>
  /\ filter = <<>>
  /\ selected = <<>>
  /\ frame = NoFrame
  /\ pending = <<>>
  /\ esc = NoEsc
  /\ buf = <<>>
  /\ n = 0
  /\ pc = "main"
  /\ args = <<FlagTable, FlagD, FieldId, FlagD, FieldName>>
  /\ cfg = parseArgs(args)
  /\ cfgErr = validateConfig(cfg)
  /\ stdout = <<>>
  /\ outErr = NilError
  /\ result = <<>>
  /\ err = FALSE
  /\ rawMode = FALSE
  /\ altScreen = FALSE
  /\ cursorHidden = FALSE

\* newApp: every record matches, the column widths are computed.
newApp ==
  /\ pc = "main"
  /\ filtered' = AllPositions
  /\ colWidths' = IF tableMode /\ Len(displayAttrs) > 0
                  THEN calculateColumnWidths(objects, displayAttrs) ELSE <<>>
  /\ pc' = "new"
  /\ UNCHANGED <<cmdline, output, objects, displayAttrs, separator, tableMode, truncate,
                 width, height, cursor, filter, selected, frame, pending, esc,
                 buf, n, result, err, terminal>>

NextTable == newApp

SpecTable == InitTable /\ [][NextTable]_vars

\* ----------------------------------------------------------- output model
\* main after app.run() returned without error: every list of up to MaxRows
\* records, every selection run can return on it (ascending positions), and
\* no output attribute, -o id or -o name.
Selections(len) ==
  {sel \in UNION {[1..k -> 0..(len - 1)] : k \in 0..len} :
     \A j \in 1..(Len(sel) - 1) : sel[j] < sel[j + 1]}

OutputArgs == {<<>>, <<FlagO, FieldId>>, <<FlagO, FieldName>>}

InitOutput ==
  /\ objects \in TableObjects
  /\ displayAttrs = <<>>
  /\ separator = DefaultSeparator
  /\ tableMode = FALSE
  /\ truncate = FALSE
  /\ colWidths = <<>>
  /\ width = 80
  /\ height = 24
  /\ cursor = 0
  /\ filtered = AllPositions
  /\ filter = <<>>
  /\ selected = <<>>
  /\ frame = NoFrame
  /\ pending = <<>>
  /\ esc = NoEsc
  /\ buf = <<>>
  /\ n = 0
  /\ pc = "returned"
  /\ args \in OutputArgs
  /\ cfg = parseArgs(args)
  /\ cfgErr = validateConfig(cfg)
  /\ stdout = <<>>
  /\ outErr = NilError
  /\ result \in Selections(Len(objects))
  /\ err = FALSE
  /\ rawMode = FALSE
  /\ altScreen = FALSE
  /\ cursorHidden = FALSE

\* main: the selected records are printed when the selection is not empty;
\* an error of outputSelectedObjects is fatal.
mainOutput ==
  /\ pc = "returned"
  /\ ~err
  /\ LET out == IF Len(result) > 0
                THEN outputSelectedObjects(objects, result, mainOutputAttr(cfg))
                ELSE [stdout |-> <<>>, err |-> NilError]
     IN /\ stdout' = stdout \o out.stdout
        /\ outErr' = out.err
        /\ pc' = IF out.err # NilError THEN "fatal" ELSE "exited"
  /\ UNCHANGED <<cmdline, config, cursor, filtered, filter, selected, frame,
                 pending, esc, buf, n, result, err, terminal>>

NextOutput == mainOutput

SpecOutput == InitOutput /\ [][NextOutput]_vars

\* ---------------------------------------------------------------- claims
\* The values of a Go slice.
Range(seq) == {seq[i] : i \in 1..Len(seq)}

\* The last read was one byte that decodes to Confirm / to Cancel.
ConfirmRead == n = 1 /\ At(buf, 0) \in {10, 13}

CancelRead == n = 1 /\ At(buf, 0) \in {3, 27}

\* The session ended by a Confirm.
Confirmed == pc = "returned" /\ ~err /\ ConfirmRead

\* C1: after any sequence of input events the cursor is an index of the match
\* list when the list is non-empty, and 0 when it is empty.
C1_CursorInRange ==
  /\ filtered # <<>> => 0 <= cursor /\ cursor < Len(filtered)
  /\ filtered = <<>> => cursor = 0

\* C1 witness: marks were toggled (moving the cursor down), then typing left
\* no match and the cursor was brought back to 0.
C1_Witness ==
  /\ pc = "read"
  /\ n = 1 /\ At(buf, 0) = 97
  /\ filtered = <<>>
  /\ cursor = 0
  /\ Cardinality(Marked(selected)) >= 2

\* Whether record position i matches the current filter text: its lower-cased
\* display value holds the lower-cased filter text at some offset.
IsMatch(i) ==
  LET d == ToLower(getDisplayValue(At(objects, i)))
      f == ToLower(filter)
  IN \E k \in 0..(Len(d) - Len(f)) : SubSeq(d, k + 1, k + Len(f)) = f

\* C2: in every reachable state the match list is exactly the matching record
\* positions in ascending order, and every position when the filter is empty.
C2_MatchesConsistent ==
  /\ \A j \in 1..(Len(filtered) - 1) : filtered[j] < filtered[j + 1]
  /\ Range(filtered) = {i \in 0..(Len(objects) - 1) : IsMatch(i)}
  /\ filter = <<>> => filtered = AllPositions

\* C2 witness: after typing "aL" and a Backspace, filter "a" over the mixed
\* records matches some but not all of them.
C2_Witness ==
  /\ pc = "read"
  /\ n = 1 /\ At(buf, 0) = 127
  /\ filter = <<97>>
  /\ Len(filtered) > 0
  /\ Len(filtered) < Len(objects)

\* C3: whenever at least one record is marked, Confirm returns every marked
\* record position, also when the filter hides them or matches nothing.
C3_ConfirmReturnsEveryMark ==
  (Confirmed /\ Marked(selected) # {}) => Marked(selected) \subseteq Range(result)

\* C4: whenever at least one record is marked, Confirm returns only record
\* positions that are marked at that time.
C4_ConfirmReturnsOnlyMarks ==
  (Confirmed /\ Marked(selected) # {}) => Range(result) \subseteq Marked(selected)

\* C5: whenever no record is marked, Confirm returns exactly the record
\* position under the cursor, or nothing when the match list is empty.
C5_ConfirmWithoutMarks ==
  (Confirmed /\ Marked(selected) = {}) =>
    result = IF filtered # <<>> THEN <<At(filtered, cursor)>> ELSE <<>>

\* C6 as stated: a Confirm always ends the session with a non-empty result,
\* and an empty result comes only from Cancel.
C6_ConfirmNeverEmpty ==
  /\ ConfirmRead => pc = "returned" /\ result # <<>>
  /\ (pc = "returned" /\ ~err /\ result = <<>>) => CancelRead

\* C6 amended: a Confirm always ends the session; its result is non-empty
\* whenever the match list is non-empty; an empty result comes only from
\* Cancel or from a Confirm made while the match list is empty.
C6_ConfirmEnds ==
  /\ ConfirmRead => pc = "returned" /\ ~err
  /\ (ConfirmRead /\ filtered # <<>>) => result # <<>>
  /\ (pc = "returned" /\ ~err /\ result = <<>>) =>
       (CancelRead \/ (ConfirmRead /\ filtered = <<>>))

\* C6 witness: a Confirm with two marked records returned both.
C6_Witness ==
  /\ Confirmed
  /\ Len(result) = 2
  /\ Range(result) = Marked(selected)

\* C7: a Cancel ends the session with an empty result in every state.
C7_CancelEmpty ==
  CancelRead => pc = "returned" /\ result = <<>> /\ ~err

\* C7 witness: Cancel with marks, a filter text and the cursor off the top.
C7_Witness ==
  /\ pc = "returned"
  /\ CancelRead
  /\ Marked(selected) # {}
  /\ filter # <<>>
  /\ cursor > 0

\* C8: once every byte of an unrecognized escape sequence has been read, the
\* filter text, match list, cursor and marked set are those from before its
\* first read, and the session has not ended.
C8_EscapeLeavesState ==
  (esc.active /\ pending = <<>> /\ ~err) => (App = esc.before /\ pc = "read")

\* Every match costs one row.
UnitRows == \A i \in 0..(Len(filtered) - 1) : itemLines(App, i) = 1

\* C9: the painted window contains the cursor when the match list is
\* non-empty and is (0,0) when it is empty.
C9_WindowHoldsCursor ==
  pc = "painted" =>
    IF filtered # <<>>
    THEN /\ 0 <= frame.start
         /\ frame.start <= cursor
         /\ cursor < frame.end
         /\ frame.end <= Len(filtered)
    ELSE frame.start = 0 /\ frame.end = 0

\* C9 witness: a wrapping item in a window that starts above the cursor,
\* ends below it and leaves matches unpainted on both sides.
C9_Witness ==
  /\ pc = "painted"
  /\ 0 < frame.start
  /\ frame.start < cursor
  /\ cursor + 1 < frame.end
  /\ frame.end < Len(filtered)
  /\ \E i \in frame.start..(frame.end - 1) : itemLines(App, i) > 1

\* C10: with one-row items the window is start = c - min(c, A/2) and
\* end = c + 1 + min(n - c - 1, A - (c - start) - 1); 5 matches, A = 2 and
\* c = 2 give (1, 3).
C10_UnitRowWindow ==
  (pc = "painted" /\ filtered # <<>> /\ UnitRows) =>
    LET A == availableLines
        c == cursor
        cnt == Len(filtered)
    IN /\ frame.start = c - min(c, A \div 2)
       /\ frame.end = c + 1 + min(cnt - c - 1, A - (c - frame.start) - 1)
       /\ (cnt = 5 /\ A = 2 /\ c = 2) => (frame.start = 1 /\ frame.end = 3)

\* C10 witness: the scenario of 5 one-row matches, 2 available rows, cursor 2.
C10_Witness ==
  /\ pc = "painted"
  /\ UnitRows
  /\ Len(filtered) = 5
  /\ availableLines = 2
  /\ cursor = 2
  /\ frame.start = 1
  /\ frame.end = 3

\* The step is one iteration of the loop whose Read returned the bytes b.
ReadOf(b) == pc = "read" /\ n' = Len(b) /\ buf' = b

\* The step is one iteration of the loop whose Read returned a single byte.
ReadOne == pc = "read" /\ n' = 1

\* What a ToggleMark event makes of App state a.
Toggle(a) == handleInput(a, <<0>>, 1).app

\* The cursor after a ToggleMark made at cursor c over cnt matches.
Advanced(c, cnt) == IF c < cnt - 1 THEN c + 1 ELSE c

\* The marked set with the membership of idx flipped.
Flipped(S, idx) == (S \ {idx}) \cup ({idx} \ S)

\* C11: two ToggleMarks in a row on the same record position leave the marked
\* set as it was before the pair, and each of the two calls advances the
\* cursor by one unless it is made at the last match.
C11_TogglePair ==
  (pc = "read" /\ filtered # <<>>) =>
    LET a1 == Toggle(App)
        a2 == Toggle(a1)
    IN /\ a1.cursor = Advanced(cursor, Len(filtered))
       /\ a2.cursor = Advanced(a1.cursor, Len(filtered))
       /\ At(a1.filtered, a1.cursor) = At(filtered, cursor) =>
            Marked(a2.selected) = Marked(selected)

\* C11 witness: the record under the cursor, the last match, was marked and
\* unmarked again by ToggleMark, with another record still marked.
C11_Witness ==
  /\ pc = "read"
  /\ n = 1 /\ At(buf, 0) = 0
  /\ filtered # <<>>
  /\ cursor = Len(filtered) - 1
  /\ At(filtered, cursor) \in DOMAIN selected
  /\ ~selected[At(filtered, cursor)]
  /\ Marked(selected) # {}

\* C12: ToggleMark flips the mark of exactly the record under the cursor, then
\* moves the cursor down by one unless it is on the last match; on an empty
\* match list it changes neither the marked set nor the cursor.
C12_ToggleFlipsOne ==
  [][ReadOf(<<0>>) =>
       IF filtered = <<>>
       THEN Marked(selected') = Marked(selected) /\ cursor' = cursor
       ELSE /\ Marked(selected') = Flipped(Marked(selected), At(filtered, cursor))
            /\ cursor' = Advanced(cursor, Len(filtered))]_vars

\* C12 witness: after a ToggleMark one record is marked, another was unmarked
\* again, and the cursor stands below the top.
C12_Witness ==
  /\ pc = "read"
  /\ n = 1 /\ At(buf, 0) = 0
  /\ \E k \in DOMAIN selected : selected[k]
  /\ \E k \in DOMAIN selected : ~selected[k]
  /\ cursor > 0
  /\ cursor < Len(filtered) - 1

\* C13: typed characters, Backspace, MoveUp, MoveDown and ignored reads leave
\* the marked set unchanged, also while the filter hides a marked record.
C13_MarksSurviveEdits ==
  [][(pc = "read" /\ pc' = "read" /\ ~ReadOf(<<0>>)) =>
       Marked(selected') = Marked(selected)]_vars

\* C13 witness: after a typed character a marked record is hidden by the
\* filter and still marked.
C13_Witness ==
  /\ pc = "read"
  /\ n = 1 /\ At(buf, 0) \in 32..126
  /\ filtered # <<>>
  /\ \E k \in Marked(selected) : k \notin Range(filtered)

\* Whether a Go slice of ints is strictly ascending.
StrictlyAscending(seq) == \A j \in 1..(Len(seq) - 1) : seq[j] < seq[j + 1]

\* C14: with a non-empty marked set the positions Confirm returns are in
\* strictly ascending order, whatever the order of the toggles.
C14_ResultAscending ==
  (Confirmed /\ Marked(selected) # {}) => StrictlyAscending(result)

\* C14 witness: Confirm returned the two marked records 0 and 2, in this
\* order, with the cursor between them.
C14_Witness ==
  /\ Confirmed
  /\ filter = <<>>
  /\ selected = (0 :> TRUE) @@ (2 :> TRUE)
  /\ cursor = 1
  /\ result = <<0, 2>>

\* The bytes handleCharacter accepts.
Printable == 32..126

\* The step is one iteration whose Read returned one printable byte.
TypedStep == ReadOne /\ buf'[1] \in Printable

\* C15: typing a printable character onto any filter leaves a match list that
\* is a subset of the match list before the character.
C15_FilterMonotonic ==
  [][TypedStep =>
       /\ filter' = filter \o <<buf'[1]>>
       /\ Range(filtered') \subseteq Range(filtered)]_vars

\* C15 witness: two different characters were typed and a single record of
\* three is left.
C15_Witness ==
  /\ pc = "read"
  /\ n = 1 /\ At(buf, 0) \in Printable
  /\ Len(filter) = 2
  /\ filter[1] # filter[2]
  /\ filtered # <<>>
  /\ Len(filtered) < Len(objects) - 1

\* The same letter in the other case; any other byte as it is.
SwapCase(b) ==
  IF b >= 65 /\ b <= 90 THEN b + 32
  ELSE IF b >= 97 /\ b <= 122 THEN b - 32
  ELSE b

\* The texts that differ from s only in the case of letters.
CaseVariants(s) ==
  {[i \in 1..Len(s) |-> IF i \in T THEN SwapCase(s[i]) ELSE s[i]] :
     T \in SUBSET (1..Len(s))}

\* C16: filters that differ only in letter case give the same match list, and
\* a record matches whatever the case of its display value: over Alpha, Beta,
\* Gamma the filter "a" gives [0,1,2] and "al" gives [0].
C16_CaseInsensitive ==
  pc = "read" =>
    /\ \A g \in CaseVariants(filter) :
         updateFilter([App EXCEPT !.filter = g]).filtered = filtered
    /\ (objects = ObjsNames /\ displayAttrs = <<FieldName>>) =>
         /\ ToLower(filter) = <<97>> => filtered = <<0, 1, 2>>
         /\ ToLower(filter) = <<97, 108>> => filtered = <<0>>

\* C16 witness: over Alpha, Beta, Gamma the typed filter "aL" matches Alpha
\* alone.
C16_Witness ==
  /\ pc = "read"
  /\ objects = ObjsNames
  /\ displayAttrs = <<FieldName>>
  /\ filter = <<97, 76>>
  /\ filtered = <<0>>

\* The step is one iteration whose Read returned the Backspace byte.
BackspaceStep == ReadOf(<<127>>)

\* C17: after a typed character or a Backspace the cursor is the smaller of
\* the cursor before and max(0, number of new matches - 1).
C17_CursorAfterEdit ==
  [][(TypedStep \/ BackspaceStep) =>
       cursor' = min(cursor, max(0, Len(filtered') - 1))]_vars

\* C17 witness: a typed character left two of three records and the cursor on
\* the second of them.
C17_Witness ==
  /\ pc = "read"
  /\ n = 1 /\ At(buf, 0) \in Printable
  /\ Len(objects) = 3
  /\ Len(filtered) = 2
  /\ cursor = 1

\* C18: MoveUp and MoveDown move the cursor by one step inside
\* [0, number of matches - 1], do nothing at the bounds and on an empty match
\* list, never wrap, and leave the filter, the match list and the marked set.
C18_MoveOneStep ==
  [][/\ ReadOf(KeyUp) => cursor' = IF cursor > 0 THEN cursor - 1 ELSE cursor
     /\ ReadOf(KeyDown) =>
          cursor' = IF cursor < Len(filtered) - 1 THEN cursor + 1 ELSE cursor
     /\ (ReadOf(KeyUp) \/ ReadOf(KeyDown)) =>
          /\ UNCHANGED <<filter, filtered, selected>>
          /\ pc' = "read"]_vars

\* C18 witness: MoveUp was read with the cursor on the first of several
\* matches and a record marked.
C18_Witness ==
  /\ pc = "read"
  /\ n = 3 /\ buf = KeyUp
  /\ cursor = 0
  /\ Len(filtered) > 1
  /\ Marked(selected) # {}

\* C19: Backspace on an empty filter changes neither the filter, the match
\* list, the cursor nor the marked set, and the session continues.
C19_BackspaceOnEmpty ==
  [][(BackspaceStep /\ filter = <<>>) =>
       /\ UNCHANGED <<filter, filtered, cursor, selected>>
       /\ pc' = "read"
       /\ ~err']_vars

\* C19 witness: Backspace was read with the cursor on the third record of the
\* mixed records shown by name, where every character of the alphabet leaves
\* two records at most, so the filter was empty before the Backspace.
C19_Witness ==
  /\ pc = "read"
  /\ objects = ObjsMixed
  /\ displayAttrs = <<FieldName>>
  /\ n = 1 /\ At(buf, 0) = 127
  /\ filter = <<>>
  /\ cursor = 2
  /\ Marked(selected) # {}

\* C20: a 1-byte read of 3 or 27 is Cancel, of 10 or 13 Confirm, of 127
\* Backspace, of 0 ToggleMark, of a byte in [32,126] that character appended
\* to the filter; every other byte leaves the filter, the match list, the
\* cursor and the marked set and does not end the session.
C20_ByteClasses ==
  [][ReadOne =>
       LET b == buf'[1]
       IN CASE b \in {3, 27} -> pc' = "returned" /\ ~err' /\ result' = <<>>
            [] b \in {10, 13} ->
                 /\ pc' = "returned" /\ ~err'
                 /\ UNCHANGED <<filter, filtered, cursor, selected>>
            [] b = 127 ->
                 /\ pc' = "read"
                 /\ filter' = SubSeq(filter, 1, Len(filter) - 1)
                 /\ selected' = selected
            [] b = 0 ->
                 /\ pc' = "read"
                 /\ UNCHANGED <<filter, filtered>>
                 /\ filtered # <<>> =>
                      Marked(selected') =
                        Flipped(Marked(selected), At(filtered, cursor))
            [] b \in Printable ->
                 /\ pc' = "read"
                 /\ filter' = filter \o <<b>>
                 /\ selected' = selected
            [] OTHER ->
                 /\ pc' = "read"
                 /\ UNCHANGED <<filter, filtered, cursor, selected>>]_vars

\* C20 witness: a byte above the printable range was read and ignored with a
\* filter typed, a record marked and the cursor moved.
C20_Witness ==
  /\ pc = "read"
  /\ n = 1 /\ At(buf, 0) = 200
  /\ filter # <<>>
  /\ Marked(selected) # {}
  /\ cursor > 0

\* C21: a 3-byte read 27,91,65 is MoveUp and 27,91,66 is MoveDown; every
\* other read of 2 or 3 bytes leaves the filter, the match list, the cursor
\* and the marked set and does not end the session.
C21_MultiByteReads ==
  [][/\ ReadOf(KeyUp) => cursor' = max(0, cursor - 1)
     /\ ReadOf(KeyDown) =>
          cursor' = IF filtered = <<>> THEN cursor
                    ELSE min(Len(filtered) - 1, cursor + 1)
     /\ (pc = "read" /\ n' \in {2, 3} /\ buf' \notin {KeyUp, KeyDown}) =>
          /\ UNCHANGED <<filter, filtered, cursor, selected>>
          /\ pc' = "read"]_vars

\* C21 witness: three printable bytes arrived in one read and were ignored,
\* with the cursor moved and a record marked.
C21_Witness ==
  /\ pc = "read"
  /\ n = 3 /\ buf = <<97, 76, 126>>
  /\ filter = <<>>
  /\ cursor > 0
  /\ Marked(selected) # {}

\* C22: on every exit of run (Cancel, Confirm, a failed read) raw mode is
\* restored, the alternate screen is left and the cursor is shown; a failed
\* read ends the loop at once with the error and no result; when entering raw
\* mode fails the alternate screen is never entered; nothing runs after the
\* return.
C22_TerminalRestored ==
  [][/\ pc # "returned"
     /\ pc' = "returned" => (~rawMode' /\ ~altScreen' /\ ~cursorHidden')
     /\ err' => (pc' = "returned" /\ result' = <<>>)
     /\ (pc = "new" /\ err') =>
          (~altScreen /\ ~altScreen' /\ ~cursorHidden' /\ frame' = NoFrame)
     /\ altScreen' => rawMode']_vars

\* C22 witness: a read failed in the middle of a session, after a character
\* was typed and a record marked.
C22_Witness ==
  /\ pc = "returned"
  /\ err
  /\ n = 0
  /\ frame # NoFrame
  /\ filter # <<>>
  /\ Marked(selected) # {}
  /\ ~rawMode /\ ~altScreen /\ ~cursorHidden

\* Longest display string the row-cost claim is evaluated on.
MaxLen == 9

\* The least number of rows of w columns that hold len characters.
RowsFor(len, w) == CHOOSE m \in 0..len : m * w >= len /\ \A k \in 0..(m - 1) : k * w < len

\* C23: the row cost of an item is 1 in truncate mode for every display
\* string and width; in wrap mode it is ceil(len / (width - 2)), at least 1,
\* and 1 for the empty string (and 1 when width - 2 is not positive).
C23_RowCost ==
  \A len \in 0..MaxLen :
    calculateLines(Xs(len)) =
      IF truncate \/ len = 0 \/ width - 2 <= 0 THEN 1
      ELSE max(1, RowsFor(len, width - 2))

\* C23 witness: a frame painted in wrap mode whose cursor item wraps onto
\* two rows.
C23_Witness ==
  /\ pc = "painted"
  /\ ~truncate
  /\ width = 5
  /\ filtered # <<>>
  /\ Len(getDisplayValue(At(objects, At(filtered, cursor)))) = 4
  /\ itemLines(App, cursor) = 2

\* The display string of the item painted as line k of the frame.
PaintedRaw(k) == getDisplayValue(At(objects, At(filtered, frame.start + k - 1)))

\* Whether text is the string shown followed by padding spaces only.
ShownThenPadding(text, shown) ==
  /\ Len(text) >= Len(shown)
  /\ text = PadRight(Len(text), shown)

\* The "..." marker.
Ellipsis == <<46, 46, 46>>

\* C24: in truncate mode, for every width, a display string longer than
\* width - 2 is painted as its first (width - 2) - 3 characters followed by
\* "...", width - 2 characters in all; a string of at most width - 2
\* characters is painted unshortened. Stated for the widths that leave room for
\* the marker, where the prefix length (width - 2) - 3 is not negative.
C24_TruncatedText ==
  (pc = "painted" /\ truncate /\ (width - 2) - 3 >= 0) =>
    \A k \in 1..Len(frame.lines) :
      LET raw == PaintedRaw(k)
          text == frame.lines[k].text
      IN IF Len(raw) > width - 2
         THEN LET shown == SubSeq(raw, 1, (width - 2) - 3) \o Ellipsis
              IN ShownThenPadding(text, shown) /\ Len(shown) = width - 2
         ELSE ShownThenPadding(text, raw)

\* C25: for every terminal geometry, width <= 2, height <= 4 and 0x0
\* included, the frame is well defined: every row cost is at least 1,
\* availableRows is at least 1, the window is a range of the match list that
\* holds the cursor, one line is painted per window item, and a line is
\* shortened only by a slice that lies inside its display string.
C25_DegenerateGeometry ==
  pc = "painted" =>
    /\ availableLines >= 1
    /\ \A i \in 0..(Len(filtered) - 1) : itemLines(App, i) >= 1
    /\ 0 <= frame.start /\ frame.start <= frame.end /\ frame.end <= Len(filtered)
    /\ filtered # <<>> => (frame.start <= cursor /\ cursor < frame.end)
    /\ Len(frame.lines) = frame.end - frame.start
    /\ \A k \in 1..Len(frame.lines) :
         ~ShownThenPadding(frame.lines[k].text, PaintedRaw(k)) =>
           /\ (width - 2) - 3 >= 0
           /\ (width - 2) - 3 <= Len(PaintedRaw(k))

\* C25 witness: a frame painted on a terminal that reports 0x0, with several
\* matches and the cursor below the first: the window is the cursor item.
C25_Witness ==
  /\ pc = "painted"
  /\ width = 0 /\ height = 0
  /\ ~truncate
  /\ Len(filtered) >= 3
  /\ cursor = 1
  /\ frame.start = 1 /\ frame.end = 2
  /\ Len(frame.lines) = 1

\* The flags that take the next argument as their value.
ValueFlags == {FlagD, FlagO, FlagS}

\* The 1-based positions of the command line a, from i on, that hold a flag
\* or a file name rather than the value of the flag before them.
RECURSIVE OptionPositions(_, _)
OptionPositions(a, i) ==
  IF i > Len(a) THEN {}
  ELSE IF a[i] \in ValueFlags /\ i < Len(a)
  THEN {i} \cup OptionPositions(a, i + 2)
  ELSE {i} \cup OptionPositions(a, i + 1)

\* Flag f is given on the command line a, with its value if it takes one.
Given(a, f) ==
  \E i \in OptionPositions(a, 1) : a[i] = f /\ (f \in ValueFlags => i < Len(a))

\* The combinations the README forbids.
Forbidden(a) ==
  \/ Given(a, FlagL) /\ \E f \in {FlagD, FlagO, FlagS, FlagT, FlagTable, FlagA} :
                          Given(a, f)
  \/ Given(a, FlagA) /\ Given(a, FlagD)

\* C26: validateConfig returns an error for every flag combination the README
\* forbids, -l with any of -d, -o, -s, -t, -T, -a (whatever the separator
\* given to -s) and -a with -d, and no error for every other combination.
C26_ForbiddenFlags ==
  pc \in {"validated", "fatal"} => ((cfgErr # NoError) <=> Forbidden(args))

\* The total row cost of the matches at indexes from..to-1.
RECURSIVE RowsOf(_, _)
RowsOf(from, to) ==
  IF from >= to THEN 0 ELSE itemLines(App, from) + RowsOf(from + 1, to)

\* C27: the total row cost of the items of the painted window [start, end)
\* never exceeds availableRows, so the rows of the cursor item are inside the
\* rows available for items. Stated for the frames whose cursor item fits the
\* budget on its own.
C27_WindowFitsBudget ==
  (pc = "painted" /\ filtered # <<>> /\ itemLines(App, cursor) <= availableLines) =>
    RowsOf(frame.start, frame.end) <= availableLines

\* The terminal rows a line of cols characters occupies on a terminal w wide.
TerminalRows(cols, w) == IF cols = 0 THEN 1 ELSE (cols + w - 1) \div w

\* The rows line k of the frame occupies: the 2-character prefix, the painted
\* text and its padding, wrapped at the terminal width.
PaintedRows(k) == TerminalRows(PrefixWidth + Len(frame.lines[k].text), width)

\* C28: every painted item line occupies at most the rows calculateLines
\* charged for the item, and exactly one row in truncate mode. Stated for the
\* terminals wider than the prefix and, in truncate mode, for the widths at
\* which render shortens long lines (width - 2 > 3).
C28_PaintedRowsWithinCost ==
  (pc = "painted" /\ width > PrefixWidth /\ (truncate => width - 2 > 3)) =>
    \A k \in 1..Len(frame.lines) :
      /\ PaintedRows(k) <= itemLines(App, frame.start + k - 1)
      /\ truncate => PaintedRows(k) = 1

\* Matches are left unpainted on both sides of the painted window.
UnpaintedBothSides ==
  pc = "painted" /\ frame.start > 0 /\ frame.end < Len(filtered)

\* The items of the window before and after the cursor item.
Preceding == cursor - frame.start

Following == frame.end - cursor - 1

\* C29 as claimed: with matches left unpainted on both sides, the window shows
\* at least as many items after the cursor as before it.
C29_MoreFollowing ==
  UnpaintedBothSides => Following >= Preceding

\* C29 as amended: with matches left unpainted on both sides, the rows of the
\* items before the cursor are at most half the budget, rounded down; when
\* every item costs one row the items before the cursor are exactly that many
\* and the items after it take the rest of the budget less the cursor row,
\* which is as many as before the cursor, or one fewer when availableRows is
\* even.
C29_UpwardHalfFirst ==
  UnpaintedBothSides =>
    /\ RowsOf(frame.start, cursor) <= availableLines \div 2
    /\ UnitRows =>
         /\ Preceding = availableLines \div 2
         /\ Following = availableLines - (availableLines \div 2) - 1
         /\ Following = IF availableLines % 2 = 0 THEN Preceding - 1 ELSE Preceding

\* C29 witness: two rows for items, every item one row, matches unpainted on
\* both sides: one item is shown before the cursor and none after it.
C29_Witness ==
  /\ UnpaintedBothSides
  /\ UnitRows
  /\ availableLines = 2
  /\ Preceding = 1
  /\ Following = 0

\* C30: when every item costs one row and there are at least availableRows
\* matches, the painted window holds exactly availableRows items for every
\* cursor position, the last match included. Stated for the terminals wider
\* than the prefix.
C30_WindowFilled ==
  (pc = "painted" /\ width > PrefixWidth /\ UnitRows
     /\ Len(filtered) >= availableLines) =>
    frame.end - frame.start = availableLines

\* C31: the rows of the items painted before the cursor never exceed
\* floor(availableRows / 2), and the upward expansion is maximal under that
\* cap: when start > 0 the item at start - 1 would exceed it.
C31_UpwardMaximal ==
  (pc = "painted" /\ filtered # <<>>) =>
    /\ RowsOf(frame.start, cursor) <= availableLines \div 2
    /\ frame.start > 0 =>
         RowsOf(frame.start, cursor) + itemLines(App, frame.start - 1)
           > availableLines \div 2

\* C31 witness: one item is painted before the cursor, below the cap, and the
\* item before it is left out because its rows would exceed the cap.
C31_Witness ==
  /\ pc = "painted"
  /\ frame.start > 0
  /\ Preceding = 1
  /\ RowsOf(frame.start, cursor) < availableLines \div 2
  /\ itemLines(App, frame.start - 1) >= 2

\* C32: the downward expansion is maximal: when end < len(matches) the rows
\* of the window plus the rows of the item at end exceed availableRows.
C32_DownwardMaximal ==
  (pc = "painted" /\ filtered # <<>> /\ frame.end < Len(filtered)) =>
    RowsOf(frame.start, frame.end) + itemLines(App, frame.end) > availableLines

\* C32 witness: an item is painted after the cursor, the window is below the
\* budget, and the next item is left out because its rows would exceed it.
C32_Witness ==
  /\ pc = "painted"
  /\ frame.end < Len(filtered)
  /\ Following >= 1
  /\ RowsOf(frame.start, frame.end) < availableLines
  /\ itemLines(App, frame.end) >= 2

\* The longest display string among the items of the painted window.
MaxWindowWidth ==
  LET lens == {Len(PaintedRaw(k)) : k \in 1..Len(frame.lines)}
  IN IF lens = {} THEN 0 ELSE CHOOSE m \in lens : \A l \in lens : l <= m

\* No item of the painted window has a display string longer than width - 2.
NoWindowItemWraps ==
  \A k \in 1..Len(frame.lines) : Len(PaintedRaw(k)) <= width - PrefixWidth

\* C33: in wrap mode the padding pass is applied if and only if no item of the
\* visible window is longer than width - 2, and it pads the cursor row and the
\* marked rows to the longest display string among the items of the visible
\* window.
C33_PaddingOverWindow ==
  (pc = "painted" /\ ~truncate) =>
    \A k \in 1..Len(frame.lines) :
      LET line == frame.lines[k]
      IN (line.cursor \/ line.selected) =>
           line.text = IF NoWindowItemWraps
                       THEN PadRight(MaxWindowWidth, PaintedRaw(k))
                       ELSE PaintedRaw(k)

\* C34: whenever the loop blocks on a read, the last painted frame is the
\* frame of the current filter, match list, cursor and marked set, and a frame
\* has been painted before the first read.
C34_FrameIsCurrent ==
  pc = "read" => (frame # NoFrame /\ frame = render(App))

\* C34 witness: the loop blocks after a MoveDown that followed a typed
\* character and a mark; the frame shows the cursor below the first line and
\* a marked line.
C34_Witness ==
  /\ pc = "read"
  /\ n = 3 /\ buf = KeyDown
  /\ filter # <<>>
  /\ cursor > 0
  /\ \E k \in 1..Len(frame.lines) : frame.lines[k].cursor /\ k > 1
  /\ \E k \in 1..Len(frame.lines) : frame.lines[k].selected

\* C35: the loop returns only after a 1-byte read that decodes to Cancel or
\* Confirm or after a read error, never after another read; and the iteration
\* that reads Cancel or Confirm is the one that returns.
C35_ReturnsOnlyOnExitKeys ==
  [][pc = "read" =>
       (pc' = "returned" <=>
          (err' \/ (n' = 1 /\ buf'[1] \in {3, 27, 10, 13})))]_vars

\* C35 witness: the loop returned on Enter after a character was typed, the
\* cursor moved and a record marked.
C35_Witness ==
  /\ pc = "returned"
  /\ ~err
  /\ n = 1 /\ At(buf, 0) = 13
  /\ filter # <<>>
  /\ cursor > 0
  /\ Marked(selected) # {}
  /\ result # <<>>

\* The string one field of a record is rendered as in the display string:
\* JSON for an array, %v for the other values, empty when absent.
RenderedField(obj, attr) ==
  IF attr \notin DOMAIN obj THEN <<>>
  ELSE IF obj[attr].t = "arr" THEN JSONValue(obj[attr])
  ELSE SprintfV(obj[attr])

\* The column's width: the longest rendering of the field over all records.
RenderedWidth(attr) ==
  LET lens == {Len(RenderedField(objects[i], attr)) : i \in 1..Len(objects)}
  IN CHOOSE m \in lens : \A l \in lens : l <= m

\* C36: in table mode the first of two projected fields is rendered at exactly
\* the column's width, the longest rendering of that field over all records,
\* so the second column starts at the same offset in every record's display
\* string, also when the value is absent or an array.
C36_ColumnsAligned ==
  pc = "new" /\ tableMode /\ displayAttrs = <<FieldId, FieldName>> =>
    \A i \in 1..Len(objects) :
      getDisplayValue(objects[i]) =
        PadRight(RenderedWidth(FieldId), RenderedField(objects[i], FieldId))
        \o <<32, 32>> \o RenderedField(objects[i], FieldName)

\* The session after one more iteration of the loop whose Read returned b.
AfterRead(a, b) == handleInput(a, b, Len(b)).app

\* The characters typed for the round trip: the two ends of the printable
\* range, and letters of the records in either case.
RoundTripChars == {32, 65, 76, 97, 108, 126}

\* C37: from every state of the loop, typing a printable character appends
\* exactly that character to the filter, and a Backspace after it removes
\* exactly that character again: the filter and the match list are those
\* before the character was typed and the marked set is unchanged throughout.
C37_TypeThenBackspace ==
  pc = "read" =>
    \A ch \in RoundTripChars :
      LET typed == AfterRead(App, <<ch>>)
          undone == AfterRead(typed, <<127>>)
      IN /\ typed.filter = filter \o <<ch>>
         /\ Marked(typed.selected) = Marked(selected)
         /\ typed.filter = undone.filter \o <<ch>>
         /\ undone.filter = filter
         /\ undone.filtered = filtered
         /\ Marked(undone.selected) = Marked(selected)

\* C37 witness: a Backspace was just read, a character is left in the filter,
\* a record is marked, and typing some character would hide a match, so the
\* Backspace after it has a match to bring back.
C37_Witness ==
  /\ pc = "read"
  /\ n = 1 /\ At(buf, 0) = 127
  /\ filter # <<>>
  /\ Marked(selected) # {}
  /\ \E ch \in RoundTripChars :
       Len(AfterRead(App, <<ch>>).filtered) < Len(filtered)

\* C38: when an output attribute is given and some selected record lacks
\* it, the error is returned and nothing has been written to standard output.
C38_NothingPrintedOnError ==
  (/\ pc \in {"fatal", "exited"}
   /\ mainOutputAttr(cfg) # <<>>
   /\ \E j \in 1..Len(result) :
        mainOutputAttr(cfg) \notin DOMAIN At(objects, result[j])) =>
    /\ outErr = ErrorfAttributeNotFound(mainOutputAttr(cfg))
    /\ stdout = <<>>

====
